---- MODULE Spec2Model ----
(***************************************************************************)
(* EquiAid Navigator (src/app.py): one Streamlit script.  Every script run  *)
(* executes the module top level (credential lookup, client construction)   *)
(* and then main(): the profile form, and on submission the call of         *)
(* ai_fetch_awards(profile) followed by the rendering of the returned       *)
(* awards.  ai_fetch_awards is also callable on its own (caller "direct").  *)
(***************************************************************************)
EXTENDS Integers, Sequences, FiniteSets, TLC

\* ---------------------------------------------------------------- bounds
MaxAwards == 2      \* longest awards array built from CoreItems
MaxStrLen == 2      \* longest text typed into a free-text form field
MaxRuns   == 3      \* script runs plus direct calls of ai_fetch_awards

\* ------------------------------------------------------ program constants
MinHousehold == 1
MaxHousehold == 20

\* ------------------------------------------------------------------ text
\* A free text is a sequence of one-character strings.
Quote     == "\""
Backslash == "\\"
Alphabet  == {" ", "t", Quote}
Whitespace == {" "}

RECURSIVE SeqsUpTo(_, _)
SeqsUpTo(S, n) ==
  IF n = 0 THEN {<<>>}
  ELSE LET shorter == SeqsUpTo(S, n - 1)
       IN  shorter \cup {Append(s, x) : s \in {t \in shorter : Len(t) = n - 1}, x \in S}

Texts == SeqsUpTo(Alphabet, MaxStrLen)

\* str.upper() on one character
UpperChar(c) == IF c = "t" THEN "T" ELSE IF c = "x" THEN "X" ELSE c

\* str.upper()
Upper(s) == [i \in 1..Len(s) |-> UpperChar(s[i])]

RECURSIVE LStrip(_)
LStrip(s) == IF s # <<>> /\ Head(s) \in Whitespace THEN LStrip(Tail(s)) ELSE s

RECURSIVE RStrip(_)
RStrip(s) ==
  IF s # <<>> /\ s[Len(s)] \in Whitespace THEN RStrip(SubSeq(s, 1, Len(s) - 1)) ELSE s

\* a strip that forgets the right end
StripLeftOnly(s) == LStrip(s)

\* str.strip()
Strip(s) == RStrip(LStrip(s))

\* ------------------------------------------------------------ json.dumps
\* The serialized text is a sequence of tokens: one-character strings for
\* the contents of free texts, and one token for every piece of layout, key
\* or enumerated option (none of which holds a character JSON escapes).
DigitChar == <<"0", "1", "2", "3", "4", "5", "6", "7", "8", "9">>

RECURSIVE Digits(_)
Digits(n) ==
  IF n < 10 THEN <<DigitChar[n + 1]>>
  ELSE Digits(n \div 10) \o <<DigitChar[(n % 10) + 1]>>

EscapeChar(c) ==
  IF c = Quote THEN <<Backslash, Quote>>
  ELSE IF c = Backslash THEN <<Backslash, Backslash>>
  ELSE <<c>>

RECURSIVE Escape(_)
Escape(s) == IF s = <<>> THEN <<>> ELSE EscapeChar(Head(s)) \o Escape(Tail(s))

JsonString(s) == <<Quote>> \o Escape(s) \o <<Quote>>

Indent1 == "\n  "
Indent2 == "\n    "

RECURSIVE JsonListItems(_)
JsonListItems(l) ==
  IF l = <<>> THEN <<>>
  ELSE <<Indent2>> \o JsonString(<<Head(l)>>)
       \o (IF Len(l) > 1 THEN <<",">> ELSE <<>>) \o JsonListItems(Tail(l))

JsonList(l) ==
  IF l = <<>> THEN <<"[]">> ELSE <<"[">> \o JsonListItems(l) \o <<Indent1, "]">>

JsonKey(k) == <<Indent1>> \o JsonString(<<k>>) \o <<": ">>

\* json.dumps(profile, ensure_ascii=False, indent=2)
JsonDumps(p) ==
  <<"{">>
  \o JsonKey("background_categories") \o JsonList(p.background_categories) \o <<",">>
  \o JsonKey("income_range") \o JsonString(<<p.income_range>>) \o <<",">>
  \o JsonKey("household_size") \o Digits(p.household_size) \o <<",">>
  \o JsonKey("state") \o JsonString(p.state) \o <<",">>
  \o JsonKey("zip_code") \o JsonString(p.zip_code) \o <<",">>
  \o JsonKey("education_goal") \o JsonString(<<p.education_goal>>)
  \o <<"\n", "}">>

\* ------------------------------------------------------------- the form
BackgroundSamples == {<<>>, <<"Low-income household", "Rural household">>}
\* (the options of the source spell the range with an en dash)
IncomeSamples     == {"Prefer not to say", "20,001-40,000"}
HouseholdSamples  == {MinHousehold, 4, MaxHousehold}
EducationSamples  == {"Associate degree"}

MkForm(bg, inc, hs, st, zip, edu) ==
  [background_categories |-> bg, income_range |-> inc, household_size |-> hs,
   state |-> st, zip_code |-> zip, education_goal |-> edu]

\* the widgets' values before the user touched them
DefaultForm == MkForm(<<>>, "Prefer not to say", MinHousehold, <<>>, <<>>,
                      "High school completion")

\* every combination of inputs
FormInputs ==
  {MkForm(bg, inc, hs, st, zip, edu) :
     bg \in BackgroundSamples, inc \in IncomeSamples, hs \in HouseholdSamples,
     st \in Texts, zip \in Texts, edu \in EducationSamples}

\* the submissions of the request flow
FormSamples ==
  {MkForm(<<"Rural household">>, "20,001-40,000", 4, <<"t", "x">>, <<>>,
          "Associate degree"),
   DefaultForm}

\* src/app.py lines 195-202
BuildProfile(f) ==
  [background_categories |-> f.background_categories,
   income_range          |-> f.income_range,
   household_size        |-> f.household_size,
   state                 |-> Upper(Strip(f.state)),
   zip_code              |-> Strip(f.zip_code),
   education_goal        |-> f.education_goal]

NoProfile == MkForm(<<>>, "", 0, <<>>, <<>>, "")
NoRequest == <<>>

\* ------------------------------------------------- values of the upstream
FieldNames == {"name", "category", "description", "link", "why_it_matches"}

\* One element of the awards array.  An object keeps the keys it has in
\* `has` and their values in `f` ("" where the key is missing).
ObjItem(has, f) == [k |-> "obj", has |-> has, f |-> f, s |-> <<>>]
NoFields        == [x \in FieldNames |-> ""]
StrItem(s)      == [k |-> "str", has |-> {}, f |-> NoFields, s |-> s]
NullItem        == [k |-> "null", has |-> {}, f |-> NoFields, s |-> <<>>]

FullFields ==
  [x \in FieldNames |->
     CASE x = "name"           -> "Pell Grant"
       [] x = "category"       -> "grant"
       [] x = "description"    -> "Federal aid"
       [] x = "link"           -> "https://studentaid.gov"
       [] x = "why_it_matches" -> "Low income"]

Restrict(f, S) == [x \in FieldNames |-> IF x \in S THEN f[x] ELSE ""]

SubsetItem(S)  == ObjItem(S, Restrict(FullFields, S))
FullItem       == SubsetItem(FieldNames)
OnlyNameItem   == SubsetItem({"name"})
EmptyObjItem   == SubsetItem({})
UnknownCatItem == ObjItem(FieldNames, [FullFields EXCEPT !["category"] = "lottery",
                                                         !["name"] = "Raffle"])
EmptyLinkItem  == ObjItem(FieldNames, [FullFields EXCEPT !["link"] = ""])

CoreItems    == {FullItem, OnlyNameItem, UnknownCatItem, EmptyObjItem,
                 StrItem(<<"x">>), NullItem}
SingleItems  == {SubsetItem(S) : S \in SUBSET FieldNames} \cup {EmptyLinkItem}
AwardArrays  == SeqsUpTo(CoreItems, MaxAwards) \cup {<<it>> : it \in SingleItems}

\* The value under "awards" (what ai_fetch_awards hands back).
ListVal(a) == [k |-> "list", a |-> a, s |-> <<>>, n |-> 0]
StrVal(s)  == [k |-> "str", a |-> <<>>, s |-> s, n |-> 0]
NumVal(n)  == [k |-> "num", a |-> <<>>, s |-> <<>>, n |-> n]
NullVal    == [k |-> "null", a |-> <<>>, s |-> <<>>, n |-> 0]
\* a JSON object (dict): `a` lists its keys in order
DictVal(a) == [k |-> "obj", a |-> a, s |-> <<>>, n |-> 0]

NonArrayVals == {StrVal(<<"a", "b">>), StrVal(<<>>), NumVal(5), NumVal(0), NullVal,
                 DictVal(<<StrItem(<<"k">>)>>), DictVal(<<>>)}
AwardsVals   == {ListVal(a) : a \in AwardArrays} \cup NonArrayVals

\* The parsed reply: a JSON object with or without the key "awards", or a
\* JSON text that is not an object.
ObjData(has, v) == [k |-> "obj", has |-> has, v |-> v]
NonObjData(k)   == [k |-> k, has |-> FALSE, v |-> NullVal]
NoData          == NonObjData("none")
Datas == {ObjData(TRUE, v) : v \in AwardsVals} \cup {ObjData(FALSE, NullVal)}
         \cup {NonObjData("list"), NonObjData("num")}

\* message.content of the first choice
JsonText(d)   == [t |-> "json", d |-> d]
InvalidText   == [t |-> "invalid", d |-> NoData]
NoneContent   == [t |-> "none", d |-> NoData]
NoChoices     == [t |-> "nochoices", d |-> NoData]
Contents == {JsonText(d) : d \in Datas} \cup {InvalidText, NoneContent, NoChoices}

\* What client.chat.completions.create does: throw or answer.
UpstreamFailures == {"APIConnectionError", "AuthenticationError", "RateLimitError"}
Throw(e)  == [r |-> "throw", e |-> e, c |-> NoneContent]
Answer(c) == [r |-> "ok", e |-> "none", c |-> c]
NoReply   == [r |-> "none", e |-> "none", c |-> NoneContent]
Replies == {Throw(e) : e \in UpstreamFailures} \cup {Answer(c) : c \in Contents}

\* json.loads(content)
JsonLoads(c) ==
  CASE c.t = "none"    -> [ok |-> FALSE, e |-> "TypeError", d |-> NoData]
    [] c.t = "invalid" -> [ok |-> FALSE, e |-> "JSONDecodeError", d |-> NoData]
    [] OTHER           -> [ok |-> TRUE, e |-> "none", d |-> c.d]

\* Python truth value of the awards value (`if not awards`)
Truthy(v) ==
  CASE v.k = "list" -> v.a # <<>>
    [] v.k = "obj"  -> v.a # <<>>
    [] v.k = "str"  -> v.s # <<>>
    [] v.k = "num"  -> v.n # 0
    [] OTHER        -> FALSE

\* enumerate(awards): a list gives its items, a dict its keys, a string
\* its characters; a number cannot be iterated.
Iterable(v) == v.k \in {"list", "obj", "str"}
Iter(v) ==
  IF v.k = "str" THEN [i \in 1..Len(v.s) |-> StrItem(<<v.s[i]>>)] ELSE v.a

\* a lookup that ignores the default
GetNoDefault(it, key, default) == it.f[key]

\* award.get(key, default)
Get(it, key, default) == IF key \in it.has THEN it.f[key] ELSE default

\* ----------------------------------------------------------- the page
El(w, role, i, v) == [w |-> w, role |-> role, idx |-> i, v |-> v]

\* src/app.py lines 223-235: the elements of one card
Card(i, it) ==
  LET link == Get(it, "link", "")
  IN  << El("markdown", "title", i, Get(it, "name", "(no name)")),
         El("caption", "category", i, Get(it, "category", "N/A")),
         El("write", "description", i, Get(it, "description", "")) >>
      \o (IF link # "" THEN <<El("markdown", "link", i, link)>> ELSE <<>>)
      \o << El("markdown", "why", i,
               Get(it, "why_it_matches", "No explanation provided.")),
            El("markdown", "card_end", i, "---") >>

\* ---------------------------------------------------------------- state
NoKey     == "<unset>"
EnvValues == {NoKey, "", "sk-test"}

VARIABLES
  key,          \* OPENAI_API_KEY in the environment of the process
  client,       \* module global: "unset" before the first run, "None", "client"
  pc,           \* position of the running script / call
  caller,       \* who runs ai_fetch_awards: "main" or "direct"
  submitted,    \* value of st.form_submit_button in this run
  form,         \* values of the form widgets in this run
  profile,      \* main's local / ai_fetch_awards' argument
  request,      \* user_profile_str embedded in the user message
  reply,        \* what the upstream call did in this invocation
  data,         \* ai_fetch_awards' local
  awards,       \* value returned by ai_fetch_awards
  returned,     \* ai_fetch_awards returned a value in this invocation
  exc,          \* exception raised by ai_fetch_awards ("none" if none)
  uncaught,     \* exception that left main ("none" if none)
  idx,          \* number of loop iterations completed
  out,          \* elements on the page, in order
  netCalls,     \* outbound upstream calls so far
  callsThis,    \* outbound upstream calls of the current invocation
  invocations,  \* invocations of ai_fetch_awards so far
  sent,         \* requests handed to the upstream so far, in order
  runs          \* script runs and direct calls so far

vars == <<key, client, pc, caller, submitted, form, profile, request, reply, data,
          awards, returned, exc, uncaught, idx, out, netCalls, callsThis,
          invocations, sent, runs>>

locals   == <<profile, request, reply, data, awards, returned, exc, idx>>
counters == <<netCalls, callsThis, invocations, sent>>

KeySet == key \notin {NoKey, ""}

\* the first page load of a freshly started process
Init ==
  /\ key \in EnvValues
  /\ client = "unset"
  /\ pc = "top"
  /\ caller = "main"
  /\ submitted = FALSE
  /\ form = DefaultForm
  /\ profile = NoProfile
  /\ request = NoRequest
  /\ reply = NoReply
  /\ data = NoData
  /\ awards = NullVal
  /\ returned = FALSE
  /\ exc = "none"
  /\ uncaught = "none"
  /\ idx = 0
  /\ out = <<>>
  /\ netCalls = 0
  /\ callsThis = 0
  /\ invocations = 0
  /\ sent = <<>>
  /\ runs = 1

\* -------------------------------------------------------- user and caller
Idle == pc \in {"done", "crashed", "d_done"}

\* a script run starts with an empty page and fresh locals
FreshRun ==
  /\ Idle
  /\ runs < MaxRuns
  /\ runs' = runs + 1
  /\ pc' = "top"
  /\ caller' = "main"
  /\ profile' = NoProfile
  /\ request' = NoRequest
  /\ reply' = NoReply
  /\ data' = NoData
  /\ awards' = NullVal
  /\ returned' = FALSE
  /\ exc' = "none"
  /\ uncaught' = "none"
  /\ idx' = 0
  /\ out' = <<>>
  /\ UNCHANGED <<key, client, counters>>

\* the user presses the form's submit button: the script reruns
Submit ==
  /\ submitted' = TRUE
  /\ form' \in FormSamples
  /\ FreshRun

\* the user reloads the page: the script reruns without a submission
Reload ==
  /\ submitted' = FALSE
  /\ form' = DefaultForm
  /\ FreshRun

\* ai_fetch_awards(profile) called on its own with a well-formed profile
DirectCall ==
  \E f \in FormSamples :
    /\ Idle
    /\ runs < MaxRuns
    /\ runs' = runs + 1
    /\ pc' = "f_check"
    /\ caller' = "direct"
    /\ profile' = BuildProfile(f)
    /\ request' = NoRequest
    /\ reply' = NoReply
    /\ data' = NoData
    /\ awards' = NullVal
    /\ returned' = FALSE
    /\ exc' = "none"
    /\ invocations' = invocations + 1
    /\ callsThis' = 0
    /\ UNCHANGED <<key, client, submitted, form, uncaught, idx, out, netCalls,
                   sent>>

\* ------------------------------------------------------ module top level
\* src/app.py lines 16-23
ModuleTop ==
  /\ pc = "top"
  /\ client' = IF KeySet THEN "client" ELSE "None"
  /\ out' = IF KeySet THEN out ELSE Append(out, El("warning", "no_key", 0, ""))
  /\ pc' = "form"
  /\ UNCHANGED <<key, caller, submitted, form, locals, uncaught, counters, runs>>

\* ------------------------------------------------------------------ main
\* src/app.py lines 101-182: title, notices and the profile form
MainForm ==
  /\ pc = "form"
  /\ out' = Append(out, El("form", "profile_form", 0, ""))
  /\ pc' = "handle"
  /\ UNCHANGED <<key, client, caller, submitted, form, locals, uncaught, counters,
                 runs>>

\* src/app.py lines 187-193
MainHandle ==
  /\ pc = "handle"
  /\ IF ~submitted
       THEN pc' = "done" /\ out' = out
       ELSE IF ~KeySet
              THEN /\ out' = Append(out, El("error", "config", 0, ""))
                   /\ pc' = "done"
              ELSE pc' = "build" /\ out' = out
  /\ UNCHANGED <<key, client, caller, submitted, form, locals, uncaught, counters,
                 runs>>

\* src/app.py lines 195-202
MainBuildProfile ==
  /\ pc = "build"
  /\ profile' = BuildProfile(form)
  /\ pc' = "call"
  /\ UNCHANGED <<key, client, caller, submitted, form, request, reply, data, awards,
                 returned, exc, idx, uncaught, out, counters, runs>>

\* src/app.py lines 204-206: the call of ai_fetch_awards(profile)
MainCall ==
  /\ pc = "call"
  /\ invocations' = invocations + 1
  /\ callsThis' = 0
  /\ pc' = "f_check"
  /\ UNCHANGED <<key, client, caller, submitted, form, locals, uncaught, out,
                 netCalls, sent, runs>>

\* --------------------------------------------------------ai_fetch_awards
\* an exception leaves ai_fetch_awards: into main's try, or to the caller
Raise(e) ==
  /\ exc' = e
  /\ pc' = IF caller = "main" THEN "except" ELSE "d_done"

\* the guard left out
FetchCheckClientNoGuard ==
  /\ pc = "f_check"
  /\ pc' = "f_build"
  /\ UNCHANGED <<key, client, caller, submitted, form, profile, request, reply, data,
                 awards, returned, exc, idx, uncaught, out, counters, runs>>

\* src/app.py lines 37-38
FetchCheckClient ==
  /\ pc = "f_check"
  /\ IF client = "None" THEN Raise("RuntimeError") ELSE pc' = "f_build" /\ exc' = exc
  /\ UNCHANGED <<key, client, caller, submitted, form, profile, request, reply, data,
                 awards, returned, idx, uncaught, out, counters, runs>>

\* src/app.py lines 40-79: the two messages; the user message embeds
\* json.dumps(profile)
FetchBuildRequest ==
  /\ pc = "f_build"
  /\ request' = JsonDumps(profile)
  /\ pc' = "f_call"
  /\ UNCHANGED <<key, client, caller, submitted, form, profile, reply, data, awards,
                 returned, exc, idx, uncaught, out, counters, runs>>

\* a call that is repeated once when it throws
FetchCallRetry ==
  /\ pc = "f_call"
  /\ \E r \in Replies :
       /\ reply' = r
       /\ IF r.r = "throw"
            THEN /\ Raise(r.e)
                 /\ netCalls' = netCalls + 2
                 /\ callsThis' = callsThis + 2
                 /\ sent' = sent \o <<request, request>>
            ELSE /\ pc' = "f_parse" /\ exc' = exc
                 /\ netCalls' = netCalls + 1
                 /\ callsThis' = callsThis + 1
                 /\ sent' = Append(sent, request)
  /\ UNCHANGED <<key, client, caller, submitted, form, profile, request, data, awards,
                 returned, idx, uncaught, out, invocations, runs>>

\* src/app.py lines 81-89: client.chat.completions.create(...)
FetchCall ==
  /\ pc = "f_call"
  /\ \E r \in Replies :
       /\ reply' = r
       /\ IF r.r = "throw" THEN Raise(r.e) ELSE pc' = "f_parse" /\ exc' = exc
  /\ netCalls' = netCalls + 1
  /\ callsThis' = callsThis + 1
  /\ sent' = Append(sent, request)
  /\ UNCHANGED <<key, client, caller, submitted, form, profile, request, data, awards,
                 returned, idx, uncaught, out, invocations, runs>>

\* a parse that answers unreadable content with an empty object
FetchParseFallback ==
  /\ pc = "f_parse"
  /\ LET parsed == JsonLoads(reply.c)
     IN  data' = IF parsed.ok THEN parsed.d ELSE ObjData(FALSE, NullVal)
  /\ pc' = "f_extract"
  /\ UNCHANGED <<key, client, caller, submitted, form, profile, request, reply,
                 awards, returned, exc, idx, uncaught, out, counters, runs>>

\* src/app.py lines 91-92: first choice's content, json.loads
FetchParse ==
  /\ pc = "f_parse"
  /\ LET c == reply.c
         parsed == JsonLoads(c)
     IN  IF c.t = "nochoices"
           THEN Raise("IndexError") /\ data' = data
           ELSE IF ~parsed.ok
                  THEN Raise(parsed.e) /\ data' = data
                  ELSE data' = parsed.d /\ pc' = "f_extract" /\ exc' = exc
  /\ UNCHANGED <<key, client, caller, submitted, form, profile, request, reply,
                 awards, returned, idx, uncaught, out, counters, runs>>

\* data["awards"] in place of data.get("awards", [])
FetchExtractNoDefault ==
  /\ pc = "f_extract"
  /\ IF data.k # "obj"
       THEN Raise("AttributeError") /\ awards' = awards /\ returned' = returned
       ELSE IF ~data.has
              THEN Raise("KeyError") /\ awards' = awards /\ returned' = returned
              ELSE /\ awards' = data.v
                   /\ returned' = TRUE
                   /\ pc' = IF caller = "main" THEN "header" ELSE "d_done"
                   /\ exc' = exc
  /\ UNCHANGED <<key, client, caller, submitted, form, profile, request, reply, data,
                 idx, uncaught, out, counters, runs>>

\* src/app.py lines 93-94: data.get("awards", []) and return
FetchExtract ==
  /\ pc = "f_extract"
  /\ IF data.k # "obj"
       THEN Raise("AttributeError") /\ awards' = awards /\ returned' = returned
       ELSE /\ awards' = IF data.has THEN data.v ELSE ListVal(<<>>)
            /\ returned' = TRUE
            /\ pc' = IF caller = "main" THEN "header" ELSE "d_done"
            /\ exc' = exc
  /\ UNCHANGED <<key, client, caller, submitted, form, profile, request, reply, data,
                 idx, uncaught, out, counters, runs>>

\* ------------------------------------------------- main, after the call
\* the handler without its return
MainExceptNoReturn ==
  /\ pc = "except"
  /\ out' = Append(out, El("error", "contact", 0, exc))
  /\ pc' = "header"
  /\ UNCHANGED <<key, client, caller, submitted, form, locals, uncaught, counters,
                 runs>>

\* src/app.py lines 207-209
MainExcept ==
  /\ pc = "except"
  /\ out' = Append(out, El("error", "contact", 0, exc))
  /\ pc' = "done"
  /\ UNCHANGED <<key, client, caller, submitted, form, locals, uncaught, counters,
                 runs>>

\* src/app.py lines 211-212
MainHeader ==
  /\ pc = "header"
  /\ out' = out \o <<El("markdown", "rule", 0, "---"),
                     El("subheader", "recommended", 0, "")>>
  /\ pc' = "empty"
  /\ UNCHANGED <<key, client, caller, submitted, form, locals, uncaught, counters,
                 runs>>

\* src/app.py lines 214-220
MainEmptyCheck ==
  /\ pc = "empty"
  /\ IF ~Truthy(awards)
       THEN /\ out' = Append(out, El("warning", "no_programs", 0, ""))
            /\ pc' = "done"
       ELSE pc' = "loop" /\ out' = out
  /\ UNCHANGED <<key, client, caller, submitted, form, locals, uncaught, counters,
                 runs>>

\* src/app.py lines 222-235: one iteration of the loop (or the failure
\* that ends it: enumerate of a number, .get of an item that is no dict)
MainRenderItem ==
  /\ pc = "loop"
  /\ \/ ~Iterable(awards)
     \/ idx < Len(Iter(awards))
  /\ IF ~Iterable(awards)
       THEN uncaught' = "TypeError" /\ pc' = "crashed" /\ out' = out /\ idx' = idx
       ELSE LET it == Iter(awards)[idx + 1]
            IN  IF it.k # "obj"
                  THEN /\ uncaught' = "AttributeError"
                       /\ pc' = "crashed"
                       /\ out' = out
                       /\ idx' = idx
                  ELSE /\ out' = out \o Card(idx + 1, it)
                       /\ idx' = idx + 1
                       /\ pc' = pc
                       /\ uncaught' = uncaught
  /\ UNCHANGED <<key, client, caller, submitted, form, profile, request, reply, data,
                 awards, returned, exc, counters, runs>>

\* src/app.py lines 222, 237-241: the loop is exhausted; closing caption
MainFooter ==
  /\ pc = "loop"
  /\ Iterable(awards)
  /\ idx = Len(Iter(awards))
  /\ out' = Append(out, El("caption", "disclaimer", 0, ""))
  /\ pc' = "done"
  /\ UNCHANGED <<key, client, caller, submitted, form, locals, uncaught, counters,
                 runs>>

Next ==
  \/ Submit \/ Reload \/ DirectCall
  \/ ModuleTop \/ MainForm \/ MainHandle \/ MainBuildProfile \/ MainCall
  \/ FetchCheckClient \/ FetchBuildRequest \/ FetchCall \/ FetchParse \/ FetchExtract
  \/ MainExcept \/ MainHeader \/ MainEmptyCheck \/ MainRenderItem \/ MainFooter

Spec == Init /\ [][Next]_vars

\* ------------------------------------------------------------------ types
TypeOK ==
  /\ key \in EnvValues
  /\ client \in {"unset", "None", "client"}
  /\ caller \in {"main", "direct"}
  /\ submitted \in BOOLEAN
  /\ reply \in Replies \cup {NoReply}
  /\ awards \in AwardsVals \cup {ListVal(<<>>)}
  /\ idx \in 0..(MaxAwards + 2)
  /\ netCalls = Len(sent)
  /\ netCalls \in 0..MaxRuns
  /\ callsThis \in 0..1
  /\ runs \in 1..MaxRuns

\* ---------------------------------------- the profile form on its own
\* One submission with any combination of form inputs, followed up to the
\* point where the request is ready to be sent.
InitForm ==
  /\ key = "sk-test"
  /\ client = "unset"
  /\ pc = "top"
  /\ caller = "main"
  /\ submitted = TRUE
  /\ form \in FormInputs
  /\ profile = NoProfile
  /\ request = NoRequest
  /\ reply = NoReply
  /\ data = NoData
  /\ awards = NullVal
  /\ returned = FALSE
  /\ exc = "none"
  /\ uncaught = "none"
  /\ idx = 0
  /\ out = <<>>
  /\ netCalls = 0
  /\ callsThis = 0
  /\ invocations = 0
  /\ sent = <<>>
  /\ runs = 1

NextForm ==
  \/ ModuleTop \/ MainForm \/ MainHandle \/ MainBuildProfile \/ MainCall
  \/ FetchCheckClient \/ FetchBuildRequest

SpecForm == InitForm /\ [][NextForm]_vars

\* ------------------------------------------- reading the request back
\* What a reader of the JSON text finds under each key.
IsDigit(c) == \E d \in 1..10 : DigitChar[d] = c
DigitVal(c) == (CHOOSE d \in 1..10 : DigitChar[d] = c) - 1

ValueStart(p, k) ==
  5 + CHOOSE i \in 1..(Len(p) - 4) :
        /\ p[i] = Indent1 /\ p[i + 1] = Quote /\ p[i + 2] = k
        /\ p[i + 3] = Quote /\ p[i + 4] = ": "

RECURSIVE Unescape(_, _)
Unescape(p, j) ==
  IF p[j] = Quote THEN <<>>
  ELSE IF p[j] = Backslash THEN <<p[j + 1]>> \o Unescape(p, j + 2)
  ELSE <<p[j]>> \o Unescape(p, j + 1)

ReadString(p, i) == Unescape(p, i + 1)

RECURSIVE ReadDigits(_, _, _)
ReadDigits(p, j, acc) ==
  IF IsDigit(p[j]) THEN ReadDigits(p, j + 1, acc * 10 + DigitVal(p[j])) ELSE acc

RECURSIVE ReadItems(_, _)
ReadItems(p, j) ==
  IF p[j] = Indent1 THEN <<>>
  ELSE IF p[j] = "," THEN ReadItems(p, j + 1)
  ELSE <<p[j + 2]>> \o ReadItems(p, j + 4)

ReadList(p, i) == IF p[i] = "[]" THEN <<>> ELSE ReadItems(p, i + 1)

ReadPayload(p) ==
  [background_categories |-> ReadList(p, ValueStart(p, "background_categories")),
   income_range          |-> ReadString(p, ValueStart(p, "income_range"))[1],
   household_size        |-> ReadDigits(p, ValueStart(p, "household_size"), 0),
   state                 |-> ReadString(p, ValueStart(p, "state")),
   zip_code              |-> ReadString(p, ValueStart(p, "zip_code")),
   education_goal        |-> ReadString(p, ValueStart(p, "education_goal"))[1]]

\* ================================================================ claims

\* C7 as stated: every field of the request payload equals the form input
\* as entered, the only change being that state is upper-cased.
C7_AsStated ==
  request # NoRequest =>
    ReadPayload(request) = [form EXCEPT !.state = Upper(form.state)]

\* C7 (amended): the payload built from a submission carries
\* background_categories, income_range, household_size and education_goal
\* exactly as entered, state stripped of surrounding whitespace and then
\* upper-cased, and zip_code stripped of surrounding whitespace.
C7_PayloadFields ==
  request # NoRequest =>
    LET got == ReadPayload(request)
    IN  /\ got.background_categories = form.background_categories
        /\ got.income_range = form.income_range
        /\ got.household_size = form.household_size
        /\ got.education_goal = form.education_goal
        /\ Len(got.state) <= Len(form.state)
        /\ Len(got.zip_code) <= Len(form.zip_code)
        /\ \E a, b \in 0..Len(form.state) :
             /\ a + b + Len(got.state) = Len(form.state)
             /\ \A i \in 1..a : form.state[i] \in Whitespace
             /\ \A i \in 1..b : form.state[Len(form.state) + 1 - i] \in Whitespace
             /\ \A i \in 1..Len(got.state) : got.state[i] = UpperChar(form.state[a + i])
             /\ got.state # <<>> =>
                  /\ form.state[a + 1] \notin Whitespace
                  /\ form.state[Len(form.state) - b] \notin Whitespace
        /\ \E a, b \in 0..Len(form.zip_code) :
             /\ a + b + Len(got.zip_code) = Len(form.zip_code)
             /\ \A i \in 1..a : form.zip_code[i] \in Whitespace
             /\ \A i \in 1..b : form.zip_code[Len(form.zip_code) + 1 - i] \in Whitespace
             /\ \A i \in 1..Len(got.zip_code) : got.zip_code[i] = form.zip_code[a + i]
             /\ got.zip_code # <<>> =>
                  /\ form.zip_code[a + 1] \notin Whitespace
                  /\ form.zip_code[Len(form.zip_code) - b] \notin Whitespace

\* a submission whose state and zip_code both carry surrounding whitespace
\* and a character that JSON escapes has reached the point of sending
C7_Witness ==
  /\ pc = "f_call"
  /\ form.state = <<" ", "t">>
  /\ form.zip_code = <<Quote, " ">>
  /\ form.household_size = MaxHousehold
  /\ form.background_categories # <<>>

\* ------------------------------------------------- reading the page
Has(role)      == \E i \in 1..Len(out) : out[i].role = role
Count(role)    == Cardinality({i \in 1..Len(out) : out[i].role = role})
ElsOf(i, role) == {out[j].v : j \in {n \in 1..Len(out) : out[n].idx = i /\ out[n].role = role}}

CardRoles   == {"title", "category", "description", "link", "why", "card_end"}
ResultRoles == CardRoles \cup {"rule", "recommended", "no_programs", "disclaimer"}
InFetch     == pc \in {"f_check", "f_build", "f_call", "f_parse", "f_extract"}
BeforeCall  == pc \in {"f_check", "f_build", "f_call"}

\* C1: with no credential configured, no upstream call is ever attempted:
\* ai_fetch_awards raises at once, with no request built and none sent,
\* and a submission in main ends with the configuration message without
\* entering ai_fetch_awards.
C1_NoCallWithoutKey ==
  ~KeySet =>
    /\ netCalls = 0 /\ sent = <<>> /\ callsThis = 0
    /\ request = NoRequest /\ reply = NoReply /\ ~returned
    /\ pc \notin {"f_build", "f_call", "f_parse", "f_extract"}
    /\ caller = "main" => /\ pc \notin {"build", "call", "f_check", "except"}
                          /\ exc = "none"
                          /\ (submitted /\ pc = "done") => Has("config")
    /\ (caller = "direct" /\ pc = "d_done") => exc = "RuntimeError"

\* after an aborted submission, a direct call has raised
C1_Witness ==
  /\ ~KeySet
  /\ caller = "direct" /\ pc = "d_done" /\ exc = "RuntimeError"
  /\ invocations = 1
  /\ Has("config")

\* C2 as stated: whatever the upstream replies, a value that
\* ai_fetch_awards returns is an array.
C2_AsStated == returned => awards.k = "list"

\* C3 as stated: a throwing upstream call or invalid JSON text makes
\* ai_fetch_awards fail with the one wrapped kind UpstreamError.
C3_AsStated ==
  (exc # "none" /\ (reply.r = "throw" \/ (reply.r = "ok" /\ reply.c.t = "invalid")))
    => exc = "UpstreamError"

UpstreamFailed ==
  \/ reply.r = "throw"
  \/ reply.r = "ok" /\ reply.c.t = "invalid" /\ pc # "f_parse"

\* C3 (amended): when the upstream call throws or answers with invalid
\* JSON text, ai_fetch_awards returns nothing and fails with the underlying
\* exception itself (the client's error, JSONDecodeError), not wrapped; the
\* exception reaches the caller, main shows it in the contact-error message,
\* nothing is called a second time and no exception leaves main.
C3_RawErrorPropagates ==
  UpstreamFailed =>
    /\ exc = IF reply.r = "throw" THEN reply.e ELSE "JSONDecodeError"
    /\ ~returned
    /\ callsThis = 1
    /\ caller = "main" => uncaught = "none"
    /\ pc \in {"except", "done", "d_done"}
    /\ (caller = "main" /\ pc = "done") =>
         /\ ElsOf(0, "contact") = {exc}
         /\ out[Len(out)].role = "contact"

\* a submission answered with invalid JSON text has ended
C3_Witness ==
  /\ caller = "main" /\ pc = "done"
  /\ reply.r = "ok" /\ reply.c.t = "invalid"
  /\ Has("contact")

\* C4: a submission in which ai_fetch_awards fails ends with the
\* contact-error message, and the page never holds that message together
\* with a card, the "Recommended programs" section or the empty-result notice.
C4_NoPartialResults ==
  /\ Has("contact") => \A i \in 1..Len(out) : out[i].role \notin ResultRoles
  /\ (caller = "main" /\ exc # "none") =>
       /\ \A i \in 1..Len(out) : out[i].role \notin ResultRoles
       /\ pc \in {"except", "done"}
       /\ pc = "done" => Count("contact") = 1

\* a submission whose call failed has ended
C4_Witness ==
  /\ caller = "main" /\ pc = "done" /\ exc # "none"
  /\ Has("contact")
  /\ netCalls = 1

EmptyAnswer ==
  /\ reply.r = "ok" /\ reply.c.t = "json" /\ reply.c.d.k = "obj"
  /\ \/ ~reply.c.d.has
     \/ reply.c.d.v = ListVal(<<>>)

\* C5: a successful call whose reply object has an empty awards array or
\* no awards field ends the submission with the retry invitation: no error
\* message, no exception, no card.
C5_EmptyResult ==
  (caller = "main" /\ pc \in {"done", "crashed"} /\ EmptyAnswer) =>
     /\ pc = "done"
     /\ returned /\ awards = ListVal(<<>>)
     /\ Count("no_programs") = 1
     /\ out[Len(out)].role = "no_programs"
     /\ ~Has("contact") /\ ~Has("config")
     /\ exc = "none" /\ uncaught = "none"
     /\ \A i \in 1..Len(out) : out[i].role \notin CardRoles \cup {"disclaimer"}

\* a submission answered with an object that has no awards field has ended
C5_Witness ==
  /\ caller = "main" /\ pc = "done"
  /\ EmptyAnswer /\ ~reply.c.d.has
  /\ Has("no_programs")

FieldRole(x) ==
  CASE x = "name"           -> "title"
    [] x = "category"       -> "category"
    [] x = "description"    -> "description"
    [] x = "link"           -> "link"
    [] x = "why_it_matches" -> "why"

\* the items whose cards are complete (idx and awards are main's)
Rendered == IF caller = "main" /\ Iterable(awards) THEN 1..idx ELSE {}

\* C6 as stated: in the card of an object item, every missing field shows
\* as a placeholder string.
C6_AsStated ==
  \A i \in Rendered :
    \A x \in FieldNames \ Iter(awards)[i].has :
      \E v \in ElsOf(i, FieldRole(x)) : v # ""

Shown(i, x, default) ==
  ElsOf(i, FieldRole(x)) = {IF x \in Iter(awards)[i].has THEN Iter(awards)[i].f[x]
                                                         ELSE default}

\* C6 (amended): rendering an object item never fails, whatever fields it
\* lacks: a missing name shows as "(no name)", a missing category as "N/A",
\* a missing why_it_matches as "No explanation provided.", a missing
\* description as empty text, and a missing or empty link gives no link
\* line at all; the loop goes on to the next item.
C6_MissingFields ==
  /\ \A i \in Rendered :
       /\ Iter(awards)[i].k = "obj"
       /\ Shown(i, "name", "(no name)")
       /\ Shown(i, "category", "N/A")
       /\ Shown(i, "description", "")
       /\ Shown(i, "why_it_matches", "No explanation provided.")
       /\ ElsOf(i, "link") =
            IF "link" \in Iter(awards)[i].has /\ Iter(awards)[i].f["link"] # ""
              THEN {Iter(awards)[i].f["link"]} ELSE {}
  /\ (caller = "main" /\ uncaught # "none") =>
       \/ ~Iterable(awards)
       \/ Iter(awards)[idx + 1].k # "obj"

\* an object without any field was rendered after another card, and the
\* submission has ended
C6_Witness ==
  /\ pc = "done" /\ Has("disclaimer")
  /\ idx = 2
  /\ Iter(awards)[2] = EmptyObjItem

\* C8: an invocation of ai_fetch_awards with a credential makes exactly one
\* upstream call, failed or not; main makes it only for a submission; every
\* invocation makes its own call, also for a request sent before; and no
\* invocation changes the client.
C8_OneCallPerInvocation ==
  /\ callsThis <= 1
  /\ netCalls = Len(sent)
  /\ KeySet => netCalls = invocations - (IF BeforeCall THEN 1 ELSE 0)
  /\ (KeySet /\ invocations > 0 /\ ~BeforeCall) => callsThis = 1
  /\ BeforeCall => callsThis = 0
  /\ (caller = "main" /\ (InFetch \/ pc \in {"build", "call", "except", "header",
                                            "empty", "loop"})) => submitted
  /\ (caller = "main" /\ ~submitted) => (callsThis = 0 \/ request = NoRequest)
  /\ client \in {"unset", IF KeySet THEN "client" ELSE "None"}

\* two invocations sent the same request, the second call threw, and the
\* submission has ended
C8_Witness ==
  /\ Len(sent) = 2 /\ sent[1] = sent[2]
  /\ invocations = 2
  /\ reply.r = "throw"
  /\ caller = "main" /\ pc = "done"

\* C9 as stated: no exception ever leaves main.
C9_AsStated == uncaught = "none"

\* C10 as stated: the array comes back as sent, and when the script run
\* ends an array of n items shows as n cards, numbered 1..n in the items'
\* order, each with the item's own category.
C10_AsStated ==
  /\ (returned /\ reply.c.d.has) => awards = reply.c.d.v
  /\ (caller = "main" /\ returned /\ awards.k = "list" /\ pc \in {"done", "crashed"}) =>
       /\ Count("title") = Len(awards.a)
       /\ \A i \in 1..Len(awards.a) :
            /\ Cardinality(ElsOf(i, "title")) = 1
            /\ awards.a[i].k = "obj" =>
                 ElsOf(i, "category") = {Get(awards.a[i], "category", "N/A")}
       /\ \A m, n \in 1..Len(out) :
            (m < n /\ out[m].role = "title" /\ out[n].role = "title")
              => out[m].idx < out[n].idx
====
